---------------------------- MODULE Spec2Model ----------------------------
(***************************************************************************)
(* A model of night_crawler.py: the NightCrawler class (link filter,       *)
(* recursive check_page, print_summary) and the script's main sequence.    *)
(*                                                                         *)
(* Strings are sequences of one-character strings, so that startswith,     *)
(* endswith, `in` and strip are computed character by character.  A        *)
(* fetched page is represented by what the regular expressions of          *)
(* check_page find in it: the set of href values and, per unwanted term,   *)
(* the number of occurrences as a link and as html.  The recursion of      *)
(* check_page is an explicit stack of frames; the order in which           *)
(* list(set(links)) iterates is a nondeterministic choice.  A fetch and    *)
(* the scoring that follows it run without interruption and are one step.  *)
(*                                                                         *)
(* The specifications: Spec, the script from the constructed crawler on;   *)
(* SpecProcess, more than one crawler in a process; SpecLive, Spec with    *)
(* the fairness of its one thread; SpecWeb, a crawl of a site fixed for    *)
(* the run; SpecMain, the script from parse_args on; and, for the          *)
(* functions, SpecFilter (is_useful_link), SpecScore (the excess over the  *)
(* thresholds) and SpecMatch (the regular expressions on the text of a     *)
(* page, character by character).                                          *)
(***************************************************************************)
EXTENDS Naturals, Integers, Sequences, FiniteSets, TLC

VARIABLES
    URLS_CHECKED,   \* the class attribute: url -> # of occurrences beyond expected
    self,           \* the instance: base_domain, unwanted_terms, use_link_lookup, verbose_level
    pc,             \* position of the main sequence: "main", "fatal", "start",
                    \* "crawl", "done"
    stack,          \* the active check_page calls, innermost last
    summary,        \* what print_summary computed (NoSummary before it ran)
    fetch_ok,       \* history: url -> number of requests.get that succeeded in this run
    fetch_failed,   \* history: urls for which a requests.get raised in this run
    discovered,     \* history: the normalized useful links of the pages scored in this run
    last_write,     \* history: the last message handed to write()
    runs,           \* number of crawler instances constructed in this process
    probe,          \* history of the function specifications: the last call's
                    \* arguments and result
    args,           \* what parse_args returned to the main sequence (NoArgs
                    \* where the model starts after the construction)
    web             \* the site, where it is fixed for the run: per url, whether
                    \* its fetch succeeds and the page (NoWeb where every fetch
                    \* may succeed or fail and return any page)

vars == <<URLS_CHECKED, self, pc, stack, summary, fetch_ok, fetch_failed,
          discovered, last_write, runs, probe, args, web>>

-----------------------------------------------------------------------------
(* Bounds of the model *)

\* most occurrences of one term on one page, and the largest threshold, of
\* the scoring specification (SpecScore)
MaxCount == 2
MaxQty == 2
\* most distinct href values on one page
MaxLinks == 2
\* most crawler instances constructed in one process (SpecProcess)
MaxRuns == 2
\* longest term and longest text over TermChars and TextChars (SpecMatch)
MaxTermLen == 2
MaxTextLen == 4
\* longest --terms value over ArgChars (SpecMain)
MaxArgLen == 4

-----------------------------------------------------------------------------
(* Strings *)

\* str.startswith
StartsWith(s, p) ==
    /\ Len(p) <= Len(s)
    /\ SubSeq(s, 1, Len(p)) = p

\* str.endswith
EndsWith(s, p) ==
    /\ Len(p) <= Len(s)
    /\ SubSeq(s, Len(s) - Len(p) + 1, Len(s)) = p

\* `sub in s` on strings: sub occurs at some offset of s
Contains(sub, s) ==
    \E i \in 0..Len(s) :
        /\ i + Len(sub) <= Len(s)
        /\ SubSeq(s, i + 1, i + Len(sub)) = sub

Whitespace == {" "}

RECURSIVE LStrip(_)
LStrip(s) ==
    IF s # <<>> /\ Head(s) \in Whitespace THEN LStrip(Tail(s)) ELSE s

RECURSIVE RStrip(_)
RStrip(s) ==
    IF s # <<>> /\ s[Len(s)] \in Whitespace
    THEN RStrip(SubSeq(s, 1, Len(s) - 1))
    ELSE s

\* str.strip
Strip(s) == RStrip(LStrip(s))

-----------------------------------------------------------------------------
(* Class attributes *)

FILETYPES_TO_IGNORE ==
    << <<".", "p", "d", "f">>,
       <<".", "s", "v", "g">>,
       <<".", "p", "n", "g">>,
       <<".", "c", "s", "s">>,
       <<".", "i", "c", "o">>,
       <<".", "j", "s">> >>

\* The empty dict
EmptyDict == <<>>

\* dict[key] = value
DictSet(d, k, v) == [x \in DOMAIN d \cup {k} |-> IF x = k THEN v ELSE d[x]]

\* {k: v for k, v in d.items() if k in keys}
DictRestrict(d, keys) == [x \in keys |-> d[x]]

-----------------------------------------------------------------------------
(* The inputs: crawler configurations and the pages of the web *)

Slash == <<"/">>

\* --base-domain values
DomainW == <<"w">>

\* unwanted_terms: the dict built by the main sequence, in insertion order
TermsTwo == << [term |-> "promotion", max_qty |-> 1],
               [term |-> "bonus", max_qty |-> 0] >>

TermsOne == << [term |-> "promotion", max_qty |-> 0] >>

Crawlers ==
    { [base_domain |-> DomainW, unwanted_terms |-> TermsTwo,
       use_link_lookup |-> FALSE, verbose_level |-> 1],
      [base_domain |-> DomainW, unwanted_terms |-> TermsOne,
       use_link_lookup |-> TRUE, verbose_level |-> 2] }

\* href values a page may carry, as the regular expressions capture them
Hrefs ==
    { <<"/", "a">>,                  \* root-relative
      <<"w", "/", "a">>,             \* the same page, absolute
      <<"w">>,                       \* back to the seed
      <<" ", "/", "b">>,             \* surrounded by whitespace
      <<"/", "x", ".", "j", "s">>,   \* an ignored file type
      <<"e", "/", "a">> }            \* another domain

TermNames(terms) == { terms[i].term : i \in DOMAIN terms }

\* Occurrences of one term on a page: none, as many as allowed, one too many
CountsAround(max_qty) == {0, max_qty, max_qty + 1}

\* What the two regular expressions can find of one term on a page
Findings(counts) ==
    { [link |-> l, html |-> h] : l \in counts, h \in counts }

\* What the regular expressions can find of each term on the pages of the
\* crawled site, where every occurrence of a term is one in a link
Occurrences(terms) ==
    { o \in [TermNames(terms) ->
                UNION { Findings(CountsAround(terms[i].max_qty)) :
                            i \in DOMAIN terms }] :
        \A i \in DOMAIN terms :
            /\ o[terms[i].term].html \in CountsAround(terms[i].max_qty)
            /\ o[terms[i].term].link = o[terms[i].term].html }

\* What a successful fetch can return to a crawler configured with `terms`
Contents(terms) ==
    { [hrefs |-> h, occurrences |-> o] :
        h \in { x \in SUBSET Hrefs : Cardinality(x) <= MaxLinks },
        o \in Occurrences(terms) }

NoSummary == [total_pages |-> -1]
NoWrite == [kind |-> "none", url |-> <<>>]
NoProbe == [op |-> "none"]
NoArgs == [unwanted_terms |-> <<>>]
NoWeb == <<>>

-----------------------------------------------------------------------------
(* NightCrawler.is_useful_link *)

\* The loop over the file types stopping before the last one
EndsWithIgnoredFiletypeButLast(url) ==
    \E i \in 1..(Len(FILETYPES_TO_IGNORE) - 1) :
        EndsWith(url, FILETYPES_TO_IGNORE[i])

EndsWithIgnoredFiletype(url) ==
    \E i \in DOMAIN FILETYPES_TO_IGNORE : EndsWith(url, FILETYPES_TO_IGNORE[i])

\* The filter without the test of lines 56 and 57
is_useful_link_any_domain(crawler, url) == ~EndsWithIgnoredFiletype(url)

is_useful_link(crawler, url) ==
    IF ~Contains(crawler.base_domain, url) /\ ~StartsWith(url, Slash)
    THEN FALSE
    ELSE IF EndsWithIgnoredFiletype(url)
    THEN FALSE
    ELSE TRUE

-----------------------------------------------------------------------------
(* NightCrawler.check_page: the frames of the recursion *)

Frame(p, url) == [pc |-> p, url |-> url, todo |-> {}]

Top == stack[Len(stack)]

Pop == SubSeq(stack, 1, Len(stack) - 1)

ReplaceTop(f) == [stack EXCEPT ![Len(stack)] = f]

Running(p) == pc = "crawl" /\ stack # <<>> /\ Top.pc = p

\* The url taken as it is linked
NormalizeNot(crawler, url) == url

\* if url.startswith('/'): url = self.base_domain + url
Normalize(crawler, url) ==
    IF StartsWith(url, Slash) THEN crawler.base_domain \o url ELSE url

\* A dedup check that never finds the url
AlreadyCrawledNever(url) == FALSE

\* if url in self.URLS_CHECKED
AlreadyCrawled(url) == url \in DOMAIN URLS_CHECKED

Max(a, b) == IF a >= b THEN a ELSE b

\* The excess without the floor at 0
CountBeyondExpectedUnclamped(count, max_qty) == count - max_qty

\* count_beyond_expected = max(count - max_qty, 0)
CountBeyondExpected(count, max_qty) == Max(count - max_qty, 0)

\* The loop over self.unwanted_terms.items(), from its i-th item on, started
\* with total_count = total
RECURSIVE TotalCount(_, _, _, _)
TotalCount(crawler, occurrences, i, total) ==
    IF i > Len(crawler.unwanted_terms)
    THEN total
    ELSE LET unwanted_term == crawler.unwanted_terms[i].term
             max_qty == crawler.unwanted_terms[i].max_qty
             count == IF crawler.use_link_lookup
                      THEN occurrences[unwanted_term].link
                      ELSE occurrences[unwanted_term].html
         IN  TotalCount(crawler, occurrences, i + 1,
                        total + CountBeyondExpected(count, max_qty))

\* links = [x.strip() ...]; list(set(links)); filter(self.is_useful_link, links)
UsefulLinks(crawler, hrefs) ==
    { l \in { Strip(x) : x \in hrefs } : is_useful_link(crawler, l) }

Count(d, k) == IF k \in DOMAIN d THEN d[k] ELSE 0

-----------------------------------------------------------------------------
(* The state after construction *)

Init ==
    /\ URLS_CHECKED = EmptyDict
    /\ self \in Crawlers
    /\ pc = "start"
    /\ stack = <<>>
    /\ summary = NoSummary
    /\ fetch_ok = EmptyDict
    /\ fetch_failed = {}
    /\ discovered = {}
    /\ last_write = NoWrite
    /\ runs = 1
    /\ probe = NoProbe
    /\ args = NoArgs
    /\ web = NoWeb

-----------------------------------------------------------------------------
(* The steps *)

\* crawl(): check_page(self.base_domain)
Crawl ==
    /\ pc = "start"
    /\ pc' = "crawl"
    /\ stack' = <<Frame("enter", self.base_domain)>>
    /\ UNCHANGED <<URLS_CHECKED, self, summary, fetch_ok, fetch_failed,
                   discovered, last_write, runs, probe, args,
                   web>>

\* check_page entered with an url that was already crawled: it returns
CheckPageSkip ==
    /\ Running("enter")
    /\ LET url == Normalize(self, Top.url) IN
        /\ AlreadyCrawled(url)
        /\ last_write' = [kind |-> "skip", url |-> url]
    /\ stack' = Pop
    /\ UNCHANGED <<URLS_CHECKED, self, pc, summary, fetch_ok, fetch_failed,
                   discovered, runs, probe, args,
                   web>>

\* check_page entered with a new url: it goes on to requests.get
CheckPageInit ==
    /\ Running("enter")
    /\ LET url == Normalize(self, Top.url) IN
        /\ ~AlreadyCrawled(url)
        /\ last_write' = [kind |-> "init", url |-> url]
        /\ stack' = ReplaceTop([Top EXCEPT !.pc = "fetch", !.url = url])
    /\ UNCHANGED <<URLS_CHECKED, self, pc, summary, fetch_ok, fetch_failed,
                   discovered, runs, probe, args,
                   web>>

\* A failed fetch that records the url as checked, with no occurrences
FetchFailMemoized ==
    /\ Running("fetch")
    /\ fetch_failed' = fetch_failed \cup {Top.url}
    /\ URLS_CHECKED' = DictSet(URLS_CHECKED, Top.url, 0)
    /\ last_write' = [kind |-> "error", url |-> Top.url]
    /\ stack' = Pop
    /\ UNCHANGED <<self, pc, summary, fetch_ok, discovered, runs, probe, args,
                   web>>

\* A failed fetch whose exception is not caught: every active call is left
FetchFailUncaught ==
    /\ Running("fetch")
    /\ fetch_failed' = fetch_failed \cup {Top.url}
    /\ last_write' = last_write
    /\ stack' = <<>>
    /\ UNCHANGED <<URLS_CHECKED, self, pc, summary, fetch_ok, discovered,
                   runs, probe, args,
                   web>>

\* requests.get(url).content.decode('utf-8') raises: write the error, return
FetchFail ==
    /\ Running("fetch")
    /\ fetch_failed' = fetch_failed \cup {Top.url}
    /\ last_write' = [kind |-> "error", url |-> Top.url]
    /\ stack' = Pop
    /\ UNCHANGED <<URLS_CHECKED, self, pc, summary, fetch_ok, discovered,
                   runs, probe, args,
                   web>>

\* A page whose url is not recorded before its children are visited
ScorePageNoInsert(content) ==
    LET links == UsefulLinks(self, content.hrefs) IN
        /\ fetch_ok' = DictSet(fetch_ok, Top.url, Count(fetch_ok, Top.url) + 1)
        /\ URLS_CHECKED' = URLS_CHECKED
        /\ last_write' = last_write
        /\ stack' = ReplaceTop([Top EXCEPT !.pc = "loop", !.todo = links])
        /\ discovered' = discovered \cup { Normalize(self, l) : l \in links }

\* requests.get(url).content.decode('utf-8') returns the page `content`; then
\* the loop over the unwanted terms, self.URLS_CHECKED[url] = total_count, and
\* the child links of the page: found, stripped, deduplicated, filtered
ScorePage(content) ==
    LET total_count ==
            TotalCount(self, content.occurrences, 1, 0)
        links == UsefulLinks(self, content.hrefs)
    IN
        /\ fetch_ok' = DictSet(fetch_ok, Top.url, Count(fetch_ok, Top.url) + 1)
        /\ URLS_CHECKED' = DictSet(URLS_CHECKED, Top.url, total_count)
        /\ last_write' = IF total_count > 0
                         THEN [kind |-> "found", url |-> Top.url]
                         ELSE last_write
        /\ stack' = ReplaceTop([Top EXCEPT !.pc = "loop", !.todo = links])
        /\ discovered' = discovered \cup { Normalize(self, l) : l \in links }

FetchOk ==
    /\ Running("fetch")
    /\ \E content \in Contents(self.unwanted_terms) : ScorePage(content)
    /\ UNCHANGED <<self, pc, summary, fetch_failed, runs, probe, args,
                   web>>

\* The loop of any active call goes on to its next link, the call of a
\* link before it not having returned
LoopCallAnyFrame ==
    /\ pc = "crawl"
    /\ \E i \in DOMAIN stack :
        /\ stack[i].pc = "loop"
        /\ \E link \in stack[i].todo :
            stack' = Append([stack EXCEPT ![i].todo = @ \ {link}],
                            Frame("enter", link))
    /\ UNCHANGED <<URLS_CHECKED, self, pc, summary, fetch_ok, fetch_failed,
                   discovered, last_write, runs, probe, args,
                   web>>

\* The loop leaves after its first link
LoopCallOnlyOne ==
    /\ Running("loop")
    /\ \E link \in Top.todo :
        stack' = Append(ReplaceTop([Top EXCEPT !.todo = {}]),
                        Frame("enter", link))
    /\ UNCHANGED <<URLS_CHECKED, self, pc, summary, fetch_ok, fetch_failed,
                   discovered, last_write, runs, probe, args,
                   web>>

\* for link in links: self.check_page(link)
LoopCall ==
    /\ Running("loop")
    /\ \E link \in Top.todo :
        stack' = Append(ReplaceTop([Top EXCEPT !.todo = @ \ {link}]),
                        Frame("enter", link))
    /\ UNCHANGED <<URLS_CHECKED, self, pc, summary, fetch_ok, fetch_failed,
                   discovered, last_write, runs, probe, args,
                   web>>

\* the loop is over: check_page returns
Return ==
    /\ Running("loop")
    /\ Top.todo = {}
    /\ stack' = Pop
    /\ UNCHANGED <<URLS_CHECKED, self, pc, summary, fetch_ok, fetch_failed,
                   discovered, last_write, runs, probe, args,
                   web>>

-----------------------------------------------------------------------------
(* NightCrawler.print_summary *)

\* {url: qty for url, qty in self.URLS_CHECKED.items() if qty == 0}
PagesClear(checked) ==
    DictRestrict(checked, { u \in DOMAIN checked : checked[u] = 0 })

\* The pages with terms taken with qty >= 0
PagesWithTermsFromZero(checked) ==
    DictRestrict(checked, { u \in DOMAIN checked : checked[u] >= 0 })

\* {url: qty for url, qty in self.URLS_CHECKED.items() if qty > 0}
PagesWithTerms(checked) ==
    DictRestrict(checked, { u \in DOMAIN checked : checked[u] > 0 })

\* crawl() has returned; print_summary()
PrintSummary ==
    /\ pc = "crawl"
    /\ stack = <<>>
    /\ summary' =
        [total_pages |-> Cardinality(DOMAIN URLS_CHECKED),
         pages_clear |-> PagesClear(URLS_CHECKED),
         len_pages_clear |-> Cardinality(DOMAIN PagesClear(URLS_CHECKED)),
         pages_with_terms |-> PagesWithTerms(URLS_CHECKED),
         len_pages_with_terms |->
             Cardinality(DOMAIN PagesWithTerms(URLS_CHECKED))]
    /\ last_write' = [kind |-> "totals", url |-> <<>>]
    /\ pc' = "done"
    /\ UNCHANGED <<URLS_CHECKED, self, stack, fetch_ok, fetch_failed,
                   discovered, runs, probe, args,
                   web>>

-----------------------------------------------------------------------------
(* The script: one crawler, one crawl, one summary *)

Next ==
    \/ Crawl
    \/ CheckPageSkip
    \/ CheckPageInit
    \/ FetchFail
    \/ FetchOk
    \/ LoopCall
    \/ Return
    \/ PrintSummary

Spec == Init /\ [][Next]_vars

-----------------------------------------------------------------------------
(* A process that uses the class more than once: after a summary, another   *)
(* NightCrawler is constructed and crawls.  URLS_CHECKED is an attribute of *)
(* the class, so the new instance finds it as the last one left it.         *)

NewCrawler ==
    /\ pc = "done"
    /\ runs < MaxRuns
    /\ runs' = runs + 1
    /\ self' \in Crawlers
    /\ pc' = "start"
    /\ summary' = NoSummary
    /\ fetch_ok' = EmptyDict
    /\ fetch_failed' = {}
    /\ discovered' = {}
    /\ last_write' = NoWrite
    /\ UNCHANGED <<URLS_CHECKED, stack, probe, args,
                   web>>

NextProcess ==
    \/ Next
    \/ NewCrawler

SpecProcess == Init /\ [][NextProcess]_vars

-----------------------------------------------------------------------------
(* is_useful_link as a function: called on a crawler that has not crawled   *)

DomainWW == <<"w", "w">>

FilterCrawlers ==
    { [base_domain |-> d, unwanted_terms |-> TermsTwo,
       use_link_lookup |-> FALSE, verbose_level |-> 1] : d \in {DomainW, DomainWW} }

UrlPrefixes ==
    { <<>>, <<"/">>, <<"w">>, <<"w", "w">>, <<"e">>, <<"e", "w">>, <<" ", "/">> }

UrlMiddles == { <<>>, <<"a">> }

UrlSuffixes ==
    { <<>>,
      <<".", "p", "d", "f">>, <<".", "s", "v", "g">>, <<".", "p", "n", "g">>,
      <<".", "c", "s", "s">>, <<".", "i", "c", "o">>, <<".", "j", "s">>,
      <<".", "j", "s", "o">>, <<"p", "d", "f">>, <<".", "j", "s", "?", "w">> }

ProbeUrls ==
    { p \o m \o x : p \in UrlPrefixes, m \in UrlMiddles, x \in UrlSuffixes }

InitFilter ==
    /\ URLS_CHECKED = EmptyDict
    /\ self \in FilterCrawlers
    /\ pc = "start"
    /\ stack = <<>>
    /\ summary = NoSummary
    /\ fetch_ok = EmptyDict
    /\ fetch_failed = {}
    /\ discovered = {}
    /\ last_write = NoWrite
    /\ runs = 1
    /\ probe = NoProbe
    /\ args = NoArgs
    /\ web = NoWeb

IsUsefulLinkCall ==
    /\ \E url \in ProbeUrls :
        probe' = [op |-> "is_useful_link", url |-> url,
                  result |-> is_useful_link(self, url)]
    /\ UNCHANGED <<URLS_CHECKED, self, pc, stack, summary, fetch_ok,
                   fetch_failed, discovered, last_write, runs, args,
                   web>>

NextFilter == IsUsefulLinkCall

SpecFilter == InitFilter /\ [][NextFilter]_vars

-----------------------------------------------------------------------------
(* The scoring of one page: a crawl of a seed page without links, for every *)
(* pair of thresholds and every number of occurrences within the bounds     *)

ScoreCrawlers ==
    { [base_domain |-> DomainW,
       unwanted_terms |-> << [term |-> "promotion", max_qty |-> q1],
                             [term |-> "bonus", max_qty |-> q2] >>,
       use_link_lookup |-> l, verbose_level |-> 1] :
        q1 \in 0..MaxQty, q2 \in 0..MaxQty, l \in BOOLEAN }

ScoreContents(terms) ==
    { [hrefs |-> {}, occurrences |-> o] :
        o \in [TermNames(terms) ->
                 { f \in Findings(0..MaxCount) : f.link <= f.html }] }

InitScore ==
    /\ URLS_CHECKED = EmptyDict
    /\ self \in ScoreCrawlers
    /\ pc = "start"
    /\ stack = <<>>
    /\ summary = NoSummary
    /\ fetch_ok = EmptyDict
    /\ fetch_failed = {}
    /\ discovered = {}
    /\ last_write = NoWrite
    /\ runs = 1
    /\ probe = NoProbe
    /\ args = NoArgs
    /\ web = NoWeb

\* FetchOk, with the occurrences the page had kept in probe
FetchOkScored ==
    /\ Running("fetch")
    /\ \E content \in ScoreContents(self.unwanted_terms) :
        /\ ScorePage(content)
        /\ probe' = [op |-> "score", url |-> Top.url,
                     occurrences |-> content.occurrences]
    /\ UNCHANGED <<self, pc, summary, fetch_failed, runs, args,
                   web>>

NextScore ==
    \/ Crawl
    \/ CheckPageInit
    \/ FetchOkScored
    \/ Return
    \/ PrintSummary

SpecScore == InitScore /\ [][NextScore]_vars

-----------------------------------------------------------------------------
(* The regular expressions of check_page, character by character.  A term   *)
(* is put into the pattern as it is, so it is read as a pattern itself: of  *)
(* the pattern syntax the model has the ordinary character and the dot.     *)

\* One character of a pattern against one character of the content: a dot
\* matches every character but the newline
CharMatches(p, c) == IF p = "." THEN c # "\n" ELSE p = c

\* The pattern matches the content from offset i (counted from 0) on
MatchesAt(pattern, content, i) ==
    /\ i + Len(pattern) <= Len(content)
    /\ \A k \in 1..Len(pattern) : CharMatches(pattern[k], content[i + k])

\* The start offsets of a scan that goes on one character after the start
\* of a match
RECURSIVE FindIterOverlapping(_, _, _)
FindIterOverlapping(pattern, content, pos) ==
    IF pos > Len(content)
    THEN <<>>
    ELSE IF MatchesAt(pattern, content, pos)
    THEN <<pos>> \o FindIterOverlapping(pattern, content, pos + 1)
    ELSE FindIterOverlapping(pattern, content, pos + 1)

\* [m.start() for m in re.finditer(pattern, content)], the scan being at
\* offset pos: the leftmost match from pos on, then on from its end
RECURSIVE FindIter(_, _, _)
FindIter(pattern, content, pos) ==
    IF pos > Len(content)
    THEN <<>>
    ELSE IF MatchesAt(pattern, content, pos)
    THEN <<pos>> \o FindIter(pattern, content, pos + Max(Len(pattern), 1))
    ELSE FindIter(pattern, content, pos + 1)

\* (?:'|"|#)
Terminators == {"'", "\"", "#"}

\* .*? followed by one of `stops`, from index j (counted from 1) on: the index
\* of the first of the stops, with no newline before it; 0 when there is none
RECURSIVE LazyEnd(_, _, _)
LazyEnd(content, stops, j) ==
    IF j > Len(content)
    THEN 0
    ELSE IF content[j] \in stops
    THEN j
    ELSE IF content[j] = "\n"
    THEN 0
    ELSE LazyEnd(content, stops, j + 1)

\* The matches of a scan that takes a match to end at the last character of
\* the prefix
RECURSIVE FindAllPrefixOnly(_, _, _, _)
FindAllPrefixOnly(prefix, stops, content, pos) ==
    IF pos > Len(content)
    THEN <<>>
    ELSE IF MatchesAt(prefix, content, pos)
    THEN << [start |-> pos, stop |-> pos + Len(prefix) + 1] >>
             \o FindAllPrefixOnly(prefix, stops, content,
                                  pos + Max(Len(prefix), 1))
    ELSE FindAllPrefixOnly(prefix, stops, content, pos + 1)

\* The matches of prefix.*?(?:stops) in the content, the scan being at offset
\* pos: each with the offset its prefix starts at (counted from 0) and the
\* index of its stop (counted from 1); the scan goes on after the stop
RECURSIVE FindAll(_, _, _, _)
FindAll(prefix, stops, content, pos) ==
    IF pos > Len(content)
    THEN <<>>
    ELSE LET j == IF MatchesAt(prefix, content, pos)
                  THEN LazyEnd(content, stops, pos + Len(prefix) + 1)
                  ELSE 0
         IN  IF j > 0
             THEN << [start |-> pos, stop |-> j] >>
                      \o FindAll(prefix, stops, content, j)
             ELSE FindAll(prefix, stops, content, pos + 1)

\* re.findall(r"""(TERM.*?)(?:'|"|#)""", content): the group holds the match
\* but for its stop
FindLinks(unwanted_term, content) ==
    LET found == FindAll(unwanted_term, Terminators, content, 0) IN
    [n \in DOMAIN found |->
        SubSeq(content, found[n].start + 1, found[n].stop - 1)]

HrefDouble == << "h", "r", "e", "f", "=", "\"" >>
HrefSingle == << "h", "r", "e", "f", "=", "'" >>

\* re.findall(r'href="(.*?)(?:"|#)', content), and the same with ': the
\* group holds what is between the prefix and the stop
FindHrefs(prefix, quote, content) ==
    LET found == FindAll(prefix, {quote, "#"}, content, 0) IN
    [n \in DOMAIN found |->
        SubSeq(content, found[n].start + Len(prefix) + 1, found[n].stop - 1)]

Range(s) == { s[n] : n \in DOMAIN s }

\* What the regular expressions of check_page find in the text of a page
ContentOf(terms, text) ==
    [hrefs |-> Range(FindHrefs(HrefDouble, "\"", text)
                     \o FindHrefs(HrefSingle, "'", text)),
     occurrences |->
        [t \in TermNames(terms) |->
            [link |-> Len(FindLinks(t, text)),
             html |-> Len(FindIter(t, text, 0))]]]

-----------------------------------------------------------------------------
(* The matching of one page: a crawl of a seed page whose text is given,    *)
(* for every term, threshold and text within the bounds                     *)

Promotion == << "p", "r", "o", "m", "o", "t", "i", "o", "n" >>

TermChars == {"a", "b", "."}

MatchTerms ==
    UNION { [1..n -> TermChars] : n \in 1..MaxTermLen } \cup {Promotion}

MatchCrawlers ==
    { [base_domain |-> DomainW,
       unwanted_terms |-> << [term |-> t, max_qty |-> q] >>,
       use_link_lookup |-> l, verbose_level |-> 1] :
        t \in MatchTerms, q \in 0..MaxQty, l \in BOOLEAN }

TextChars == {"a", "b", "\""}

\* `promotion` three times, as plain text
TextThreePromotions ==
    Promotion \o <<" ">> \o Promotion \o <<",", " ">> \o Promotion

\* Two links that contain `promotion`
TextTwoLinks ==
    << "h", "r", "e", "f", "=", "\"", "h", "t", "t", "p", ":", "/",
       "/", "x", ".", "c", "o", "m", "/", "p", "r", "o", "m", "o",
       "t", "i", "o", "n", "/", "a", "b", "c", "\"", " ", "h", "r",
       "e", "f", "=", "\"", "h", "t", "t", "p", ":", "/", "/", "x",
       ".", "c", "o", "m", "/", "p", "r", "o", "m", "o", "t", "i",
       "o", "n", "/", "d", "e", "f", "\"" >>

\* A link back to the seed, with a fragment
TextLinkToSeed ==
    << "a", " ", "h", "r", "e", "f", "=", "'", "w", "#", "b", "'" >>

\* A term, and a quote on the next line
TextTwoLines == << "a", "b", "\n", "\"", "b", "a", "'" >>

Texts ==
    UNION { [1..n -> TextChars] : n \in 0..MaxTextLen }
        \cup {TextThreePromotions, TextTwoLinks, TextLinkToSeed, TextTwoLines}

InitMatch ==
    /\ URLS_CHECKED = EmptyDict
    /\ self \in MatchCrawlers
    /\ pc = "start"
    /\ stack = <<>>
    /\ summary = NoSummary
    /\ fetch_ok = EmptyDict
    /\ fetch_failed = {}
    /\ discovered = {}
    /\ last_write = NoWrite
    /\ runs = 1
    /\ probe = NoProbe
    /\ args = NoArgs
    /\ web = NoWeb

\* FetchOk of a page with the given text, with the text, the start offsets
\* of line 97 and the occurrences of line 87 kept in probe
FetchOkText ==
    /\ Running("fetch")
    /\ \E text \in Texts :
        /\ ScorePage(ContentOf(self.unwanted_terms, text))
        /\ probe' = [op |-> "match", url |-> Top.url, text |-> text,
                     starts |-> FindIter(self.unwanted_terms[1].term, text, 0),
                     links |-> FindLinks(self.unwanted_terms[1].term, text)]
    /\ UNCHANGED <<self, pc, summary, fetch_failed, runs, args,
                   web>>

NextMatch ==
    \/ Crawl
    \/ CheckPageSkip
    \/ CheckPageInit
    \/ FetchOkText
    \/ LoopCall
    \/ Return
    \/ PrintSummary

SpecMatch == InitMatch /\ [][NextMatch]_vars

-----------------------------------------------------------------------------
(* The main sequence from parse_args on: the terms are parsed, then the     *)
(* crawler is constructed, crawls and prints its summary                    *)

\* The parts of str.split(sep)
RECURSIVE Split(_, _)
Split(s, sep) ==
    IF \A k \in DOMAIN s : s[k] # sep
    THEN <<s>>
    ELSE LET k == CHOOSE i \in DOMAIN s :
                    /\ s[i] = sep
                    /\ \A j \in 1..(i - 1) : s[j] # sep
         IN  <<SubSeq(s, 1, k - 1)>> \o Split(SubSeq(s, k + 1, Len(s)), sep)

DigitChars == <<"0", "1", "2", "3", "4", "5", "6", "7", "8", "9">>

IsDigit(c) == \E d \in DOMAIN DigitChars : DigitChars[d] = c

DigitValue(c) == (CHOOSE d \in DOMAIN DigitChars : DigitChars[d] = c) - 1

\* The value of a string of digits, after the value `acc` of the digits
\* before it
RECURSIVE DigitsValue(_, _)
DigitsValue(s, acc) ==
    IF s = <<>>
    THEN acc
    ELSE DigitsValue(Tail(s), 10 * acc + DigitValue(Head(s)))

Unsigned(s) == IF s # <<>> /\ Head(s) \in {"-", "+"} THEN Tail(s) ELSE s

\* int(s) does not raise ValueError: a sign or none, then digits
IsInt(s) ==
    /\ Unsigned(s) # <<>>
    /\ \A k \in DOMAIN Unsigned(s) : IsDigit(Unsigned(s)[k])

\* int(s)
Int_(s) ==
    IF s # <<>> /\ Head(s) = "-"
    THEN 0 - DigitsValue(Unsigned(s), 0)
    ELSE DigitsValue(Unsigned(s), 0)

\* try: term, qty = term_data.split(':')
\* except ValueError: term, qty = term_data, '0'
TermAndQty(term_data) ==
    LET parts == Split(term_data, ":") IN
    IF Len(parts) = 2
    THEN [term |-> parts[1], qty |-> parts[2]]
    ELSE [term |-> term_data, qty |-> <<"0">>]

\* unwanted_terms[term] = qty on a dict kept in insertion order
TermsSet(unwanted_terms, term, qty) ==
    IF \E i \in DOMAIN unwanted_terms : unwanted_terms[i].term = term
    THEN [i \in DOMAIN unwanted_terms |->
            IF unwanted_terms[i].term = term
            THEN [term |-> term, max_qty |-> qty]
            ELSE unwanted_terms[i]]
    ELSE Append(unwanted_terms, [term |-> term, max_qty |-> qty])

\* The loop over args.unwanted_terms from its i-th item on: the dict, and
\* whether an int(qty) raised ValueError
RECURSIVE ParseTerms(_, _, _)
ParseTerms(term_datas, i, unwanted_terms) ==
    IF i > Len(term_datas)
    THEN [ValueError |-> FALSE, unwanted_terms |-> unwanted_terms]
    ELSE LET parsed == TermAndQty(term_datas[i]) IN
         IF ~IsInt(parsed.qty)
         THEN [ValueError |-> TRUE, unwanted_terms |-> unwanted_terms]
         ELSE ParseTerms(term_datas, i + 1,
                         TermsSet(unwanted_terms, parsed.term, Int_(parsed.qty)))

NoCrawler == [base_domain |-> <<>>]

ArgChars == {"a", ":", "1"}

\* The --terms values: every short string over ArgChars, and some others
TermDatas ==
    UNION { [1..n -> ArgChars] : n \in 1..MaxArgLen }
        \cup { Promotion \o <<":", "1">>,
               <<"b", "o", "n", "u", "s">>,
               <<"a", ":", "1", "2">>,
               <<"a", ":", "-", "1">>,
               <<"a", ":", "1", ":", "2">>,
               <<"a", ":", "x">> }

\* The --terms lists of two values
TermDataPairs ==
    { <<x, y>> : x \in { <<"a">>, <<"a", ":", "1">>, <<"b", ":", "2">> },
                 y \in { <<"a", ":", "2">>, <<"b">>, <<"b", ":", "x">>,
                         <<"a", ":", "1", ":", "2">> } }

ArgsSet ==
    { [base_domain |-> DomainW, unwanted_terms |-> t,
       use_link_lookup |-> l, verbose_level |-> 1] :
        t \in { <<x>> : x \in TermDatas } \cup TermDataPairs,
        l \in BOOLEAN }

InitMain ==
    /\ URLS_CHECKED = EmptyDict
    /\ self = NoCrawler
    /\ pc = "main"
    /\ stack = <<>>
    /\ summary = NoSummary
    /\ fetch_ok = EmptyDict
    /\ fetch_failed = {}
    /\ discovered = {}
    /\ last_write = NoWrite
    /\ runs = 0
    /\ probe = NoProbe
    /\ args \in ArgsSet
    /\ web = NoWeb

\* Lines 157 to 166: the terms are parsed and the crawler is constructed, or
\* the ValueError of int(qty) ends the process
Main ==
    /\ pc = "main"
    /\ LET parsed == ParseTerms(args.unwanted_terms, 1, <<>>) IN
        IF parsed.ValueError
        THEN /\ pc' = "fatal"
             /\ UNCHANGED <<self, runs>>
        ELSE /\ pc' = "start"
             /\ self' = [base_domain |-> args.base_domain,
                         unwanted_terms |-> parsed.unwanted_terms,
                         use_link_lookup |-> args.use_link_lookup,
                         verbose_level |-> args.verbose_level]
             /\ runs' = runs + 1
    /\ UNCHANGED <<URLS_CHECKED, stack, summary, fetch_ok, fetch_failed,
                   discovered, last_write, probe, args,
                   web>>

\* FetchOk of a page without links
FetchOkNoLinks ==
    /\ Running("fetch")
    /\ \E content \in ScoreContents(self.unwanted_terms) : ScorePage(content)
    /\ UNCHANGED <<self, pc, summary, fetch_failed, runs, probe, args,
                   web>>

NextMain ==
    \/ Main
    \/ Crawl
    \/ CheckPageInit
    \/ FetchFail
    \/ FetchOkNoLinks
    \/ Return
    \/ PrintSummary

SpecMain == InitMain /\ [][NextMain]_vars

-----------------------------------------------------------------------------
(* A crawl of a site that is fixed for the run: every url has one fetch     *)
(* outcome and, where the fetch succeeds, one page                          *)

\* The href values of the pages of a fixed site: links within the site, of
\* which a page has any, and a link to another site, which every page has
WebHrefs == { <<"/", "a">>, <<" ", "/", "b">>, <<"w">> }

ForeignHref == <<"e", "/", "a">>

\* The urls of the site that a crawl from w can come to request
WebUrls == { <<"w">>, <<"w", "/", "a">>, <<"w", "/", "b">> }

WebCrawlers == { c \in Crawlers : c.unwanted_terms = TermsOne }

Webs(terms) ==
    [WebUrls ->
        { [ok |-> FALSE] }
            \cup { [ok |-> TRUE,
                    content |-> [hrefs |-> h \cup {ForeignHref},
                                 occurrences |-> o]] :
                     h \in SUBSET WebHrefs, o \in Occurrences(terms) }]

InitWeb ==
    /\ URLS_CHECKED = EmptyDict
    /\ self \in WebCrawlers
    /\ pc = "start"
    /\ stack = <<>>
    /\ summary = NoSummary
    /\ fetch_ok = EmptyDict
    /\ fetch_failed = {}
    /\ discovered = {}
    /\ last_write = NoWrite
    /\ runs = 1
    /\ probe = NoProbe
    /\ args = NoArgs
    /\ web \in Webs(self.unwanted_terms)

\* FetchFail, for an url whose fetch fails on this site
FetchFailWeb ==
    /\ Running("fetch")
    /\ ~web[Top.url].ok
    /\ FetchFail

\* FetchOk, with the page the site has for the url
FetchOkWeb ==
    /\ Running("fetch")
    /\ web[Top.url].ok
    /\ ScorePage(web[Top.url].content)
    /\ UNCHANGED <<self, pc, summary, fetch_failed, runs, probe, args, web>>

NextWeb ==
    \/ Crawl
    \/ CheckPageSkip
    \/ CheckPageInit
    \/ FetchFailWeb
    \/ FetchOkWeb
    \/ LoopCall
    \/ Return
    \/ PrintSummary

SpecWeb == InitWeb /\ [][NextWeb]_vars

-----------------------------------------------------------------------------
(* The script as it is scheduled: one thread that runs on while it has a    *)
(* step to take                                                             *)

\* A crawler that looks up one term
InitLive ==
    /\ Init
    /\ self.unwanted_terms = TermsOne

SpecLive == InitLive /\ [][Next]_vars /\ WF_vars(Next)

-----------------------------------------------------------------------------
(* Properties *)

PageA == <<"w", "/", "a">>
PageB == <<"w", "/", "b">>

Seed == Normalize(self, self.base_domain)

\* The urls of the check_page calls that are waiting for the innermost one
CallerUrls == { stack[i].url : i \in 1..(Len(stack) - 1) }

\* C1: every url is fetched successfully (and so scored) at most once in a
\* crawl, also when several links lead to it, and an entry of URLS_CHECKED,
\* once made, keeps its url and its score in every later step.
C1_ScoredOnce ==
    /\ [](\A u \in DOMAIN fetch_ok : fetch_ok[u] <= 1)
    /\ [][\A u \in DOMAIN URLS_CHECKED :
            /\ u \in DOMAIN URLS_CHECKED'
            /\ URLS_CHECKED'[u] = URLS_CHECKED[u]
            /\ Count(fetch_ok', u) = Count(fetch_ok, u)]_vars

\* C1 witness: page a, already scored, was reached again from page b and
\* skipped.
C1_Witness ==
    /\ last_write = [kind |-> "skip", url |-> PageA]
    /\ Len(stack) = 2
    /\ stack[2].url = PageB
    /\ fetch_ok[PageA] = 1
    /\ PageA \in DOMAIN URLS_CHECKED

\* C2: every page whose children are being visited is already a key of
\* URLS_CHECKED, and a check_page call whose url is that of a call waiting
\* below it (the page itself, the seed or another ancestor) returns at once:
\* no fetch, URLS_CHECKED unchanged.
C2_AncestorNoOp ==
    /\ [](\A i \in DOMAIN stack :
            stack[i].pc = "loop" => stack[i].url \in DOMAIN URLS_CHECKED)
    /\ [][(Running("enter") /\ Normalize(self, Top.url) \in CallerUrls)
            => /\ stack' = Pop
               /\ URLS_CHECKED' = URLS_CHECKED
               /\ fetch_ok' = fetch_ok
               /\ fetch_failed' = fetch_failed]_vars

\* C2 witness: page a links back to the seed; that call was skipped while the
\* calls for the seed and for page a are still active, the seed fetched once.
C2_Witness ==
    /\ Len(stack) = 2
    /\ stack[2].url = PageA
    /\ last_write = [kind |-> "skip", url |-> Seed]
    /\ stack[1].url = Seed
    /\ fetch_ok[Seed] = 1

\* A step in which the fetch of the innermost call fails
FetchFailedStep ==
    /\ Running("fetch")
    /\ Top.url \in fetch_failed'
    /\ fetch_ok' = fetch_ok

\* C3: the step in which a fetch fails leaves URLS_CHECKED as it was and
\* returns from the call without a call for a child; and a call for an url
\* that failed before and is not in URLS_CHECKED goes on to a new fetch.
C3_FailureNotMemoized ==
    /\ [][FetchFailedStep => (URLS_CHECKED' = URLS_CHECKED /\ stack' = Pop)]_vars
    /\ [][(/\ Running("enter")
           /\ Normalize(self, Top.url) \in fetch_failed
           /\ Normalize(self, Top.url) \notin DOMAIN URLS_CHECKED)
            => (/\ Len(stack') = Len(stack)
                /\ stack'[Len(stack)].pc = "fetch"
                /\ stack'[Len(stack)].url = Normalize(self, Top.url))]_vars

\* C3 witness: the fetch of page b failed when the seed linked to it, and it is
\* being fetched again for page a (a page holds at most one link to page b).
C3_Witness ==
    /\ Running("fetch")
    /\ Top.url = PageB
    /\ PageB \in fetch_failed
    /\ Len(stack) = 3
    /\ stack[2].url = PageA

\* C4: when the crawl has ended, every useful link of every page in
\* URLS_CHECKED is a key of URLS_CHECKED, or every fetch of it failed (and
\* there was one).
C4_FailureScoped ==
    pc = "done" =>
        \A u \in discovered :
            \/ u \in DOMAIN URLS_CHECKED
            \/ (u \in fetch_failed /\ Count(fetch_ok, u) = 0)

\* C4 witness: the seed links to pages a and b; the fetch of a failed, b was
\* crawled all the same, and the crawl has ended.
C4_Witness ==
    /\ pc = "done"
    /\ discovered = {PageA, PageB}
    /\ PageA \in fetch_failed
    /\ DOMAIN URLS_CHECKED = {Seed, PageB}

\* The excess of a count over a threshold, as the specification words it
Excess(count, threshold) == IF count > threshold THEN count - threshold ELSE 0

\* The match count of a term on the page kept in probe, in the crawler's mode
MatchCount(term) ==
    IF self.use_link_lookup
    THEN probe.occurrences[term].link
    ELSE probe.occurrences[term].html

\* The sum of the excesses of the terms with the indexes in `idx`
RECURSIVE ExcessSum(_)
ExcessSum(idx) ==
    IF idx = {}
    THEN 0
    ELSE LET i == CHOOSE j \in idx : TRUE IN
         Excess(MatchCount(self.unwanted_terms[i].term),
                self.unwanted_terms[i].max_qty)
             + ExcessSum(idx \ {i})

\* C5: the score stored for a page is the sum over the configured terms of
\* max(count - threshold, 0); the excess of one term is never negative and
\* does not grow when the threshold grows.
C5_ScoreIsSumOfExcess ==
    /\ probe.op = "score" =>
        /\ probe.url \in DOMAIN URLS_CHECKED
        /\ URLS_CHECKED[probe.url] = ExcessSum(DOMAIN self.unwanted_terms)
    /\ \A count \in 0..MaxCount, threshold \in 0..MaxQty :
        /\ CountBeyondExpected(count, threshold) = Excess(count, threshold)
        /\ CountBeyondExpected(count, threshold) >= 0
        /\ CountBeyondExpected(count, threshold + 1)
               <= CountBeyondExpected(count, threshold)

\* C5 witness: a scored page on which one term stays below its threshold and
\* another exceeds its own, so that the score is positive.
C5_Witness ==
    /\ probe.op = "score"
    /\ \E i \in DOMAIN self.unwanted_terms :
        MatchCount(self.unwanted_terms[i].term) < self.unwanted_terms[i].max_qty
    /\ \E i \in DOMAIN self.unwanted_terms :
        MatchCount(self.unwanted_terms[i].term) > self.unwanted_terms[i].max_qty
    /\ URLS_CHECKED[probe.url] > 0

IgnoredExtensions ==
    { <<".", "p", "d", "f">>, <<".", "s", "v", "g">>, <<".", "p", "n", "g">>,
      <<".", "c", "s", "s">>, <<".", "i", "c", "o">>, <<".", "j", "s">> }

\* url is some string followed by ext
EndsIn(url, ext) == \E k \in 0..Len(url) : url = SubSeq(url, 1, k) \o ext

\* url is some string, then the domain, then some string
HasDomain(url, domain) ==
    \E i \in 0..Len(url), j \in 1..(Len(url) + 1) :
        url = SubSeq(url, 1, i) \o domain \o SubSeq(url, j, Len(url))

RootRelative(url) == url # <<>> /\ url[1] = "/"

\* C6: is_useful_link rejects an url that ends in an ignored extension, rejects
\* an url that neither contains the base domain nor starts with '/', accepts
\* every other url, and changes nothing of the crawler or of URLS_CHECKED.
C6_FilterDecision ==
    /\ [](probe.op = "is_useful_link" =>
            probe.result =
                ~(\/ \E ext \in IgnoredExtensions : EndsIn(probe.url, ext)
                  \/ (/\ ~HasDomain(probe.url, self.base_domain)
                      /\ ~RootRelative(probe.url))))
    /\ [][UNCHANGED <<URLS_CHECKED, self, pc, stack, summary>>]_vars

\* C6 witness: a root-relative url rejected for its extension alone.
C6_Witness ==
    /\ probe.op = "is_useful_link"
    /\ probe.url = <<"/", "a", ".", "j", "s">>
    /\ probe.result = FALSE

\* C7: in the summary every url of URLS_CHECKED is in exactly one of the pages
\* clear (count 0) and the pages with terms (count > 0), and the two lengths
\* add up to the pages checked.
C7_Partition ==
    pc = "done" =>
        /\ \A u \in DOMAIN URLS_CHECKED :
            /\ (u \in DOMAIN summary.pages_clear)
                   # (u \in DOMAIN summary.pages_with_terms)
            /\ u \in DOMAIN summary.pages_clear <=> URLS_CHECKED[u] = 0
            /\ u \in DOMAIN summary.pages_with_terms <=> URLS_CHECKED[u] > 0
        /\ DOMAIN summary.pages_clear \cup DOMAIN summary.pages_with_terms
               \subseteq DOMAIN URLS_CHECKED
        /\ summary.total_pages = Cardinality(DOMAIN URLS_CHECKED)
        /\ summary.len_pages_clear + summary.len_pages_with_terms
               = summary.total_pages

\* C7 witness: a summary with a clear page and a page with terms.
C7_Witness ==
    /\ pc = "done"
    /\ summary.len_pages_clear >= 1
    /\ summary.len_pages_with_terms >= 1

\* C8: every crawler that is about to crawl finds URLS_CHECKED empty.
C8_RunStartsEmpty == pc = "start" => URLS_CHECKED = EmptyDict

\* C9: when the fetch of the seed failed, the crawl returns (no call stays
\* active), URLS_CHECKED ends empty, and the summary has 0 pages checked, 0
\* pages clear and 0 pages with terms.
C9_UnreachableSeed ==
    Seed \in fetch_failed =>
        /\ stack = <<>>
        /\ URLS_CHECKED = EmptyDict
        /\ pc = "done" =>
            /\ summary.total_pages = 0
            /\ summary.len_pages_clear = 0
            /\ summary.len_pages_with_terms = 0

\* C9 witness: the summary of a crawl whose seed could not be fetched.
C9_Witness ==
    /\ pc = "done"
    /\ fetch_failed = {Seed}
    /\ summary.total_pages = 0

\* C10: every key of URLS_CHECKED is an url whose fetch succeeded in this run,
\* and the pages checked of the summary are the urls fetched successfully.
C10_OnlyFetchedPages ==
    /\ \A u \in DOMAIN URLS_CHECKED : Count(fetch_ok, u) >= 1
    /\ pc = "done" =>
        summary.total_pages =
            Cardinality({ u \in DOMAIN fetch_ok : fetch_ok[u] >= 1 })

\* C10 witness: a summary of two pages, after a crawl in which the fetch of
\* page b failed.
C10_Witness ==
    /\ pc = "done"
    /\ PageB \in fetch_failed
    /\ PageB \notin DOMAIN URLS_CHECKED
    /\ summary.total_pages = 2

\* The term, the threshold and the count of the page kept in probe by
\* SpecMatch
MatchTerm == self.unwanted_terms[1].term
MatchQty == self.unwanted_terms[1].max_qty

\* The literal term is a substring of the text from offset i on
OccursAt(term, text, i) ==
    /\ i + Len(term) <= Len(text)
    /\ SubSeq(text, i + 1, i + Len(term)) = term

\* The term read as a pattern fits the text from offset i on
FitsAt(term, text, i) ==
    /\ i + Len(term) <= Len(text)
    /\ \A k \in 1..Len(term) :
        \/ term[k] = text[i + k]
        \/ (term[k] = "." /\ text[i + k] # "\n")

Ordinary(term) == \A k \in DOMAIN term : term[k] # "."

NoTerminatorFrom(s, k) == \A j \in k..Len(s) : s[j] \notin Terminators

\* C12: in link-lookup mode every counted match starts at an occurrence of
\* the term and runs up to, not including, the next quote or # of the
\* content; the count is the number of these matches and the page score its
\* excess: 2 for two links that contain `promotion` with threshold 0.
C12_LinkMatches ==
    (probe.op = "match" /\ self.use_link_lookup) =>
        /\ \A n \in DOMAIN probe.links :
            /\ StartsWith(probe.links[n], MatchTerm)
            /\ NoTerminatorFrom(probe.links[n], Len(MatchTerm) + 1)
            /\ \E i \in 0..Len(probe.text), q \in Terminators :
                OccursAt(probe.links[n] \o <<q>>, probe.text, i)
        /\ URLS_CHECKED[probe.url] = Excess(Len(probe.links), MatchQty)
        /\ (/\ MatchTerm = Promotion
            /\ probe.text = TextTwoLinks
            /\ MatchQty = 0)
               => (Len(probe.links) = 2 /\ URLS_CHECKED[probe.url] = 2)


\* The ways to read a --terms value as `term` or `term:threshold`: whole, as
\* a term with the default threshold, when it has no colon; else as what is
\* before a colon with the integer written after that colon
Readings(term_data) ==
    IF \A k \in DOMAIN term_data : term_data[k] # ":"
    THEN { [term |-> term_data, qty |-> 0] }
    ELSE { [term |-> SubSeq(term_data, 1, k - 1),
            qty |-> Int_(SubSeq(term_data, k + 1, Len(term_data)))] :
             k \in { j \in DOMAIN term_data :
                       /\ term_data[j] = ":"
                       /\ IsInt(SubSeq(term_data, j + 1, Len(term_data))) } }

Malformed(term_data) == Readings(term_data) = {}

\* C13: when some --terms value is malformed (it has a colon, and no integer
\* threshold after it) the process ends with a fatal error with no crawler
\* constructed and no page fetched; else a crawler is constructed and each
\* value has its entry, term -> threshold (0 without a threshold), unless a
\* later value sets the same term.
C13_TermsParsed ==
    pc # "main" =>
        IF \E n \in DOMAIN args.unwanted_terms :
                Malformed(args.unwanted_terms[n])
        THEN /\ pc = "fatal"
             /\ self = NoCrawler
             /\ stack = <<>>
             /\ fetch_ok = EmptyDict
             /\ fetch_failed = {}
        ELSE /\ pc # "fatal"
             /\ \A n \in DOMAIN args.unwanted_terms :
                 \E r \in Readings(args.unwanted_terms[n]) :
                     \/ \E i \in DOMAIN self.unwanted_terms :
                         self.unwanted_terms[i] =
                             [term |-> r.term, max_qty |-> r.qty]
                     \/ \E m \in (n + 1)..Len(args.unwanted_terms) :
                         \E l \in Readings(args.unwanted_terms[m]) :
                             l.term = r.term


\* C14: the crawl started at the seed terminates, whatever the links of the
\* pages and whichever fetches fail; a check_page call returns at once,
\* leaving URLS_CHECKED as it is, when its url was crawled or its fetch
\* fails, and else adds its url, which was not a key, to URLS_CHECKED; a
\* call is made by a page only after that.
C14_Terminates ==
    /\ <>(pc = "done")
    /\ [][Running("enter") =>
            \/ (/\ Normalize(self, Top.url) \in DOMAIN URLS_CHECKED
                /\ stack' = Pop
                /\ URLS_CHECKED' = URLS_CHECKED)
            \/ (/\ Normalize(self, Top.url) \notin DOMAIN URLS_CHECKED
                /\ Len(stack') = Len(stack)
                /\ stack'[Len(stack)].pc = "fetch"
                /\ URLS_CHECKED' = URLS_CHECKED)]_vars
    /\ [][Running("fetch") =>
            \/ (/\ Top.url \in fetch_failed'
                /\ stack' = Pop
                /\ URLS_CHECKED' = URLS_CHECKED)
            \/ (/\ Top.url \notin DOMAIN URLS_CHECKED
                /\ DOMAIN URLS_CHECKED' = DOMAIN URLS_CHECKED \cup {Top.url}
                /\ Len(stack') = Len(stack))]_vars
    /\ [][(stack # <<>> /\ Len(stack') > Len(stack)) =>
            (Top.pc = "loop" /\ Top.url \in DOMAIN URLS_CHECKED)]_vars

\* C14 witness: a crawl that has ended, on a site where page a links back to
\* the seed and to page b, the fetch of page b failed from the seed and
\* succeeded from page a.
C14_Witness ==
    /\ pc = "done"
    /\ Seed \in discovered
    /\ PageB \in fetch_failed
    /\ DOMAIN URLS_CHECKED = {Seed, PageA, PageB}
    /\ last_write.kind = "totals"

\* C15: only the innermost check_page call can be entering or fetching, so
\* at most one fetch is in progress; every call below it is in its loop, its
\* page fetched once and scored; a call is made only by the innermost call
\* from its loop, and no call below the innermost one takes a step, so the
\* next link of a page is begun only when every call made for the link
\* before it has returned.
C15_DepthFirst ==
    /\ [](\A i \in 1..(Len(stack) - 1) :
            /\ stack[i].pc = "loop"
            /\ stack[i].url \in DOMAIN URLS_CHECKED
            /\ Count(fetch_ok, stack[i].url) = 1)
    /\ [](Cardinality({ i \in DOMAIN stack : stack[i].pc = "fetch" }) <= 1)
    /\ [][/\ Len(stack') <= Len(stack) + 1
          /\ Len(stack') >= Len(stack) - 1
          /\ \A i \in 1..(Len(stack) - 1) :
                i <= Len(stack') /\ stack'[i] = stack[i]
          /\ (stack # <<>> /\ Len(stack') > Len(stack)) =>
                /\ Top.pc = "loop"
                /\ stack'[Len(stack)].todo \subseteq Top.todo
                /\ Cardinality(stack'[Len(stack)].todo)
                       = Cardinality(Top.todo) - 1
                /\ stack'[Len(stack')].pc = "enter"]_vars

\* C15 witness: the seed links to pages a and b; page a was fetched, scored
\* and its call returned, and only then page b is being fetched.
C15_Witness ==
    /\ Running("fetch")
    /\ Len(stack) = 2
    /\ stack[1].url = Seed
    /\ stack[1].todo = {}
    /\ Top.url = PageB
    /\ discovered = {PageA, PageB}
    /\ PageA \in DOMAIN URLS_CHECKED

\* C16: a call entered with a root-relative url does its dedup check and its
\* fetch with the base domain put before it; a page linked as a path and as
\* base domain + path has the one key base domain + path and is fetched
\* successfully at most once; with a base domain that does not start with
\* '/', no key, no fetching call and no fetched url is root-relative.
C16_RootRelativeNormalized ==
    /\ [](~RootRelative(self.base_domain) =>
            /\ \A u \in DOMAIN URLS_CHECKED \cup DOMAIN fetch_ok \cup fetch_failed :
                ~RootRelative(u)
            /\ \A i \in DOMAIN stack :
                stack[i].pc # "enter" => ~RootRelative(stack[i].url))
    /\ [](\A l \in Hrefs :
            RootRelative(l) =>
                /\ Count(fetch_ok, l) + Count(fetch_ok, self.base_domain \o l) <= 1
                /\ l \in DOMAIN URLS_CHECKED
                       => self.base_domain \o l \in DOMAIN URLS_CHECKED)
    /\ [][(Running("enter") /\ RootRelative(Top.url)) =>
            IF self.base_domain \o Top.url \in DOMAIN URLS_CHECKED
            THEN /\ stack' = Pop
                 /\ fetch_ok' = fetch_ok
                 /\ fetch_failed' = fetch_failed
            ELSE /\ Len(stack') = Len(stack)
                 /\ stack'[Len(stack)].pc = "fetch"
                 /\ stack'[Len(stack)].url = self.base_domain \o Top.url]_vars

\* C16 witness: the seed links to page a as w/a and as /a; the page was
\* fetched once and recorded for w/a and that call has returned, and the
\* call for /a is entered: its dedup check is the next step.
C16_Witness ==
    /\ Len(stack) = 2
    /\ stack[1].url = Seed
    /\ stack[2] = Frame("enter", <<"/", "a">>)
    /\ DOMAIN URLS_CHECKED = {Seed, PageA}
    /\ Count(fetch_ok, PageA) = 1
    /\ fetch_failed = {}

\* C17: the number of active check_page calls is at most the number of keys
\* of URLS_CHECKED plus one, and at most the number of urls fetched
\* successfully plus one: the calls below the innermost one are for
\* different urls, each a key of URLS_CHECKED.
C17_DepthBound ==
    /\ Len(stack) <= Cardinality(DOMAIN URLS_CHECKED) + 1
    /\ Len(stack) <= Cardinality({ u \in DOMAIN fetch_ok : fetch_ok[u] >= 1 }) + 1
    /\ \A i, j \in 1..(Len(stack) - 1) :
        /\ stack[i].url \in DOMAIN URLS_CHECKED
        /\ i # j => stack[i].url # stack[j].url

\* C17 witness: the seed, page a and page b are recorded and each is in its
\* loop, and a fourth call is entered.
C17_Witness ==
    /\ Len(stack) = 4
    /\ Cardinality(DOMAIN URLS_CHECKED) = 3
    /\ stack[1].url = Seed
    /\ stack[4].pc = "enter"

\* The urls for which a fetch was attempted in this run, or is about to be
FetchAttempted ==
    DOMAIN fetch_ok \cup fetch_failed
        \cup { stack[i].url : i \in { j \in DOMAIN stack : stack[j].pc = "fetch" } }

\* C18: every url for which a fetch is attempted, and every key of
\* URLS_CHECKED, has the base domain as a substring, and none of them but the
\* seed ends in an ignored extension.
C18_OneDomain ==
    \A u \in FetchAttempted \cup DOMAIN URLS_CHECKED :
        /\ HasDomain(u, self.base_domain)
        /\ u # Seed => \A ext \in IgnoredExtensions : ~EndsIn(u, ext)

\* C18 witness: the crawl has ended with fetches attempted for the seed and
\* for pages a and b, one of them failed.
C18_Witness ==
    /\ pc = "done"
    /\ FetchAttempted = {Seed, PageA, PageB}
    /\ fetch_failed = {PageA}
    /\ DOMAIN URLS_CHECKED = {Seed, PageB}

\* The urls a page of the fixed site links to, through its useful links
LinkedFrom(u) ==
    { Normalize(self, Strip(l)) :
        l \in { h \in web[u].content.hrefs : is_useful_link(self, Strip(h)) } }

\* The urls in `from`, and the fetchable urls their pages link to
ReachStep(from) ==
    from \cup { v \in UNION { LinkedFrom(u) : u \in from } : web[v].ok }

\* The fetchable urls reachable from the seed (the site has three urls)
Reachable ==
    LET start == IF web[Seed].ok THEN {Seed} ELSE {} IN
    ReachStep(ReachStep(ReachStep(start)))

\* C19: on a site fixed for the run, whatever the order in which the links
\* of each page are iterated, the crawl ends with the same URLS_CHECKED: its
\* keys are the fetchable urls reachable from the seed through useful links
\* of fetched pages, each with the score of its page.
C19_OrderIndependent ==
    pc = "done" =>
        /\ DOMAIN URLS_CHECKED = Reachable
        /\ \A u \in DOMAIN URLS_CHECKED :
            URLS_CHECKED[u] =
                Excess(IF self.use_link_lookup
                       THEN web[u].content.occurrences[TermsOne[1].term].link
                       ELSE web[u].content.occurrences[TermsOne[1].term].html,
                       TermsOne[1].max_qty)

\* C19 witness: the seed links to pages a and b, in either order; page a
\* cannot be fetched, page b links back to the seed and has one occurrence
\* too many; the crawl has ended.
C19_Witness ==
    /\ pc = "done"
    /\ web # NoWeb
    /\ web[Seed].ok
    /\ web[Seed].content.hrefs = { <<"/", "a">>, <<" ", "/", "b">>, ForeignHref }
    /\ ~web[PageA].ok
    /\ web[PageB].ok
    /\ <<"w">> \in web[PageB].content.hrefs
    /\ URLS_CHECKED[PageB] = 1
    /\ DOMAIN URLS_CHECKED = {Seed, PageB}

=============================================================================
